---- MODULE Spec2Model ----
(***************************************************************************)
(* A model of cmake_graph: the transform of one CMake file-api codemodel   *)
(* configuration (projects, directories, targets) into a dependency graph  *)
(* (src/src/cmake_graph/script.py, cmake_build_config_graph), and of the   *)
(* marker generator GenerateLetters.                                       *)
(*                                                                         *)
(* Python lists of the snapshot are functions over 0-based index ranges,   *)
(* so that every index stored in the state is the index the code uses.     *)
(* Lists the code builds (dependencies, edges, dep markers) are sequences. *)
(* Node, cluster and tooltip texts are tuples of their string pieces.      *)
(* An optional value (None or x) is the empty tuple or <<x>>.              *)
(***************************************************************************)
EXTENDS Integers, Sequences, FiniteSets, TLC

VARIABLES
    codemodel,                  \* the configuration snapshot (input)
    reply,                      \* the target detail documents (input)
    skip_types,                 \* option: pattern of target types to skip
    skip_names,                 \* option: pattern of target names to skip
    perproject,                 \* option: merge per-project edges
    frequent_deps_threshold,    \* option: usage-count cutoff
    pc,                         \* position of the run
    raised,                     \* the exception that ended the run, or "none"
    graph_nodes,                \* nodes added to some scope of the graph
    dependencies,               \* list of Dependence records
    frequent_dependencies,      \* set of frequent targets (by index)
    icon_generator,             \* the run's GenerateLetters object
    targets_state,              \* per target: _marker, _usage_count, _dep_markers
    dep_pos,                    \* number of Dependence records the edge pass has handled
    full_project_dependencies,  \* edge pass: (target, project) pairs already drawn
    edges,                      \* edges added to the graph, in order
    generators,                 \* GenerateLetters objects driven on their own
    target_graphs,              \* per target: the node get_graph() built, if any
    codemodel_dependencies      \* Codemodel(...).dependencies, once constructed

vars == << codemodel, reply, skip_types, skip_names, perproject, frequent_deps_threshold, pc, raised,
           graph_nodes, dependencies, frequent_dependencies, icon_generator,
           targets_state, dep_pos, full_project_dependencies, edges,
           generators, target_graphs, codemodel_dependencies >>

----------------------------------------------------------------------------
(* Bounds of the model *)

\* longest dependencyIds list of one target
MaxDeps == 2

\* most dependency ids in one snapshot, over all targets
MaxTotalDeps == 3

\* largest frequent_deps_threshold tried (from 0)
MaxThreshold == 2

\* GenerateLetters objects in the generator specification
NumGenerators == 2

----------------------------------------------------------------------------
(* The snapshot universe *)

\* names of the snapshot's targets, in codemodel order
TargetNames == << "a", "b", "c" >>

\* their ids (CMake: name, "::@", directory hash)
TargetIds == << "a::@6890", "b::@a1f3", "c::@77e0" >>

\* an id that no target of the snapshot has
UnknownId == "gone::@0000"

\* project names, in codemodel order; project 1 is a child of project 0
ProjectNames == << "top", "sub" >>

\* directory sources, in codemodel order, and the project that owns each
DirectorySources == << ".", "sub", "sub/lib" >>
DirectoryProject == << 0, 1, 1 >>

TIdx == 0 .. (Len(TargetNames) - 1)
PIdx == 0 .. (Len(ProjectNames) - 1)
DIdx == 0 .. (Len(DirectorySources) - 1)

AllIds == { TargetIds[i] : i \in 1 .. Len(TargetIds) } \cup { UnknownId }

Range(s) == { s[i] : i \in DOMAIN s }

SeqsUpTo(S, n) == UNION { [1 .. k -> S] : k \in 0 .. n }

RECURSIVE SumLen(_, _)
SumLen(f, S) ==
    IF S = {} THEN 0
    ELSE LET x == CHOOSE y \in S : TRUE
         IN  Len(f[x]) + SumLen(f, S \ {x})

\* dependency-id lists of all targets, within the bounds; a target lists ids
\* of other targets, possibly twice, and possibly an id of no target
DepAssignments ==
    { d \in [TIdx -> SeqsUpTo(AllIds, MaxDeps)] :
        /\ SumLen(d, TIdx) <= MaxTotalDeps
        /\ \A t \in TIdx : TargetIds[t + 1] \notin Range(d[t]) }

\* the directory of each target; directories 1 and 2 belong to the same
\* project and differ in their source alone, so of two placements that differ
\* by exchanging them the one that uses directory 1 first is taken
DirectoryPlacements ==
    { d \in [TIdx -> DIdx] :
        \A t \in TIdx : d[t] = 2 => \E u \in TIdx : u < t /\ d[u] = 1 }

\* the codemodel of one configuration: each target lies in directory dirs[t]
\* and in the project of that directory, and lists the ids deps[t]
Snapshot(dirs, deps) ==
    [ name |-> "Debug",
      projects |->
        [ p \in PIdx |->
            [ name |-> ProjectNames[p + 1],
              parentIndex |-> IF p = 0 THEN << >> ELSE << 0 >>,
              targetIndexes |->
                { t \in TIdx : DirectoryProject[dirs[t] + 1] = p } ] ],
      directories |->
        [ d \in DIdx |->
            [ source |-> DirectorySources[d + 1],
              projectIndex |-> DirectoryProject[d + 1] ] ],
      targets |->
        [ t \in TIdx |->
            [ id |-> TargetIds[t + 1],
              name |-> TargetNames[t + 1],
              directoryIndex |-> dirs[t],
              projectIndex |-> DirectoryProject[dirs[t] + 1],
              dependencies |-> deps[t] ] ] ]

\* the type of each target, as its detail document gives it
TargetTypes == << "EXECUTABLE", "STATIC_LIBRARY", "UTILITY" >>

\* the characters of the target names and types
Chars ==
    [ s \in Range(TargetNames) \cup Range(TargetTypes) |->
        CASE s = "EXECUTABLE" -> << "E", "X", "E", "C", "U", "T", "A", "B", "L", "E" >>
          [] s = "STATIC_LIBRARY" ->
               << "S", "T", "A", "T", "I", "C", "_", "L", "I", "B", "R", "A", "R", "Y" >>
          [] s = "UTILITY" -> << "U", "T", "I", "L", "I", "T", "Y" >>
          [] OTHER -> << s >> ]

\* a skip pattern is the list of its "|" alternatives, each a literal given by
\* its characters; the empty list is the empty pattern ""
NoPattern == << >>

\* skip_types patterns tried: "", "UTIL", "EXEC|STATIC"
SkipTypesPatterns ==
    { NoPattern,
      << << "U", "T", "I", "L" >> >>,
      << << "E", "X", "E", "C" >>, << "S", "T", "A", "T", "I", "C" >> >> }

\* skip_names patterns tried: "", "a", "b|c"
SkipNamesPatterns ==
    { NoPattern, << << "a" >> >>, << << "b" >>, << "c" >> >> }

\* a backtrace node: the root has a file only, a call node a command and a line
RootNode == [ file |-> 0, command |-> << >>, line |-> << >> ]
CallNode(command, line) == [ file |-> 0, command |-> << command >>, line |-> << line >> ]

BacktraceFiles == << "CMakeLists.txt" >>

\* one defining command, at index 1 of the command table
OneDefinition ==
    [ commands |-> << "install", "add_library" >>,
      nodes |-> << RootNode, CallNode(0, 20), CallNode(1, 12) >>,
      files |-> BacktraceFiles ]

\* no defining command (a custom target)
NoDefinition ==
    [ commands |-> << "add_custom_target" >>,
      nodes |-> << RootNode, CallNode(0, 7) >>,
      files |-> BacktraceFiles ]

\* two defining commands
TwoDefinitions ==
    [ commands |-> << "add_library", "add_executable" >>,
      nodes |-> << RootNode, CallNode(0, 3), CallNode(1, 4) >>,
      files |-> BacktraceFiles ]

BacktraceGraphs == { OneDefinition, NoDefinition, TwoDefinitions }

\* the target detail documents of the reply directory, one per target
Reply(bgs) ==
    [ t \in TIdx |-> [ type |-> TargetTypes[t + 1], backtraceGraph |-> bgs[t] ] ]

----------------------------------------------------------------------------
(* GenerateLetters *)

\* chain(range(0x3B1, 0x3CA), range(0x391, 0x3AA)), as code points
greek_codes ==
    [ i \in 1 .. 50 |-> IF i <= 25 THEN 944 + i ELSE 887 + i ]

\* str.isalpha on those code points: U+03A2 is unassigned, all others are letters
isalpha(c) == c # 930

greek_letters == SelectSeq(greek_codes, isalpha)

\* GenerateLetters(): a fresh object
GenerateLetters == [ _index |-> 0 ]

\* next() without the increment of _index
next_without_increment(self) ==
    IF self._index >= Len(greek_letters)
    THEN [ self |-> self, letter |-> << >>, raised |-> "IndexError" ]
    ELSE [ self |-> self,
           letter |-> << greek_letters[self._index + 1] >>,
           raised |-> "none" ]

\* GenerateLetters.next(): the object afterwards, the letter returned (if any)
\* and the exception raised (if any).  greek_letters[self._index] is a 0-based
\* list read, which raises IndexError at _index = len(greek_letters).
next(self) ==
    IF self._index > Len(greek_letters)
    THEN [ self |-> self, letter |-> << >>, raised |-> "RuntimeError" ]
    ELSE IF self._index >= Len(greek_letters)
    THEN [ self |-> self, letter |-> << >>, raised |-> "IndexError" ]
    ELSE [ self |-> [ self EXCEPT !._index = @ + 1 ],
           letter |-> << greek_letters[self._index + 1] >>,
           raised |-> "none" ]

----------------------------------------------------------------------------
(* Project and Target accessors *)

project_name(cm, p) == cm.projects[p].name

target_indexes(cm, p) == cm.projects[p].targetIndexes

target_name(cm, t) == cm.targets[t].name

target_id(cm, t) == cm.targets[t].id

project_index(cm, t) == cm.targets[t].projectIndex

directory_index(cm, t) == cm.targets[t].directoryIndex

\* the codemodel's target indexes in list order
TargetOrder == [ i \in 1 .. Len(TargetNames) |-> i - 1 ]

\* dependency_ids with the ids of no target left out
dependency_ids_known_only(cm, t) ==
    SelectSeq(cm.targets[t].dependencies,
              LAMBDA id : \E u \in TIdx : cm.targets[u].id = id)

\* dependency_ids that lists each id once and in the order of the target list
dependency_ids_in_target_order(cm, t) ==
    LET hit == SelectSeq(TargetOrder,
                         LAMBDA i : cm.targets[i].id \in Range(cm.targets[t].dependencies))
    IN  [ k \in DOMAIN hit |-> cm.targets[hit[k]].id ]

\* Target.dependency_ids(): the ids of the target's "dependencies" entries
dependency_ids(cm, t) == cm.targets[t].dependencies

\* Target.dependency_indexes(): scan the codemodel's targets in order and keep
\* the index of each one whose id is among the target's dependency ids
dependency_indexes(cm, t) ==
    SelectSeq(TargetOrder,
              LAMBDA i : target_id(cm, i) \in Range(dependency_ids(cm, t)))

\* full_dependence with any() in place of all()
full_dependence_any(cm, p, t) ==
    \E ind \in target_indexes(cm, p) : ind \in Range(dependency_indexes(cm, t))

\* Project.full_dependence(target)
full_dependence(cm, p, t) ==
    \A ind \in target_indexes(cm, p) : ind \in Range(dependency_indexes(cm, t))

\* pydot.Cluster(pr_name).get_name()
project_graph_name(cm, p) == << "cluster", project_name(cm, p) >>

\* Project.get_project_node().get_name(): the anchor node of the project
project_node_name(cm, p) == << "PROJNODE" >> \o project_graph_name(cm, p)

\* Target.get_graph().get_name(): the node of the target
target_node_name(cm, t) == << target_name(cm, t) >>

\* pydot.Dot(f"targetgraph-{cfg_name}").get_name()
root_graph_name(cm) == << "targetgraph", cm.name >>

----------------------------------------------------------------------------
(* cmake_build_config_graph: loading *)

\* Directory.get_graph().get_name()
directory_graph_name(cm, d) == << "cluster", cm.directories[d].source >>

\* targets_dict: target id -> target; a later target with the same id replaces
\* an earlier one
targets_dict(cm) ==
    [ id \in { target_id(cm, t) : t \in TIdx } |->
        CHOOSE t \in TIdx :
            /\ target_id(cm, t) = id
            /\ \A u \in TIdx : target_id(cm, u) = id => u <= t ]

\* targets_dict.values(): a key keeps the place of its first insertion and
\* holds the target inserted for it last
targets_dict_values(cm) ==
    LET first == SelectSeq(TargetOrder,
                           LAMBDA t : \A u \in TIdx : target_id(cm, u) = target_id(cm, t) => t <= u)
    IN  [ i \in DOMAIN first |-> targets_dict(cm)[target_id(cm, first[i])] ]

\* the commands that define a target
def_commands == { "add_executable", "add_library" }

\* Target.type()
type(rp, t) == rp[t].type

\* Target.find_cmake_define(): None (an empty value) without a defining
\* command; an assertion that there is one only; the file and line of the
\* first backtrace node that refers to it
find_cmake_define(rp, t) ==
    LET bg == rp[t].backtraceGraph
        definitions == SelectSeq([ i \in 1 .. Len(bg.commands) |-> i - 1 ],
                                 LAMBDA i : bg.commands[i + 1] \in def_commands)
    IN  IF definitions = << >> THEN [ raised |-> "none", value |-> << >> ]
        ELSE IF Len(definitions) # 1
        THEN [ raised |-> "AssertionError", value |-> << >> ]
        ELSE LET def_index == definitions[1]
                 hits == SelectSeq(bg.nodes, LAMBDA n : n.command = << def_index >>)
             IN  IF hits = << >>
                 THEN [ raised |-> "UnboundLocalError", value |-> << >> ]
                 ELSE [ raised |-> "none",
                        value |-> << [ com |-> bg.commands[def_index + 1],
                                       file |-> bg.files[hits[1].file + 1],
                                       line |-> hits[1].line[1] ] >> ]

\* Target.get_graph(): the target's node, built on the first call; tg holds,
\* per target, the node built so far (none: << >>)
get_graph(cm, rp, tg, t) ==
    IF tg[t] # << >> THEN [ raised |-> "none", target_graphs |-> tg ]
    ELSE LET definition == find_cmake_define(rp, t)
         IN  IF definition.raised # "none"
             THEN [ raised |-> definition.raised, target_graphs |-> tg ]
             ELSE [ raised |-> "none",
                    target_graphs |->
                      [ tg EXCEPT ![t] = << [ name |-> target_node_name(cm, t),
                                              type |-> type(rp, t),
                                              definition |-> definition.value ] >> ] ]

IsPrefix(p, s) == Len(p) <= Len(s) /\ SubSeq(s, 1, Len(p)) = p

\* re.match(pattern, string) is not None: some alternative of the pattern
\* matches at the start of the string
re_match(pattern, string) ==
    \E i \in DOMAIN pattern : IsPrefix(pattern[i], Chars[string])

\* the loading loop skips the target: a pattern is given and matches
skipped(cm, rp, st, sn, t) ==
    \/ st # NoPattern /\ re_match(st, type(rp, t))
    \/ sn # NoPattern /\ re_match(sn, target_name(cm, t))

\* the anchor node the Project loop puts into each project's cluster
AnchorNodes(cm) ==
    { [ graph |-> project_graph_name(cm, p), name |-> project_node_name(cm, p) ]
        : p \in PIdx }

\* the Target loop over codemodel["targets"]: a skipped target is passed over,
\* every other one gets its node built and added to the cluster of its
\* directory; an exception of get_graph() ends the loop
RECURSIVE LoadLoop(_, _, _, _, _, _)
LoadLoop(cm, rp, st, sn, order, acc) ==
    IF order = << >> THEN acc
    ELSE LET t == Head(order)
         IN  IF skipped(cm, rp, st, sn, t)
             THEN LoadLoop(cm, rp, st, sn, Tail(order), acc)
             ELSE LET g == get_graph(cm, rp, acc.target_graphs, t)
                  IN  IF g.raised # "none" THEN [ acc EXCEPT !.raised = g.raised ]
                      ELSE LoadLoop(cm, rp, st, sn, Tail(order),
                             [ raised |-> "none",
                               graph_nodes |-> acc.graph_nodes \cup
                                 { [ graph |-> directory_graph_name(cm, directory_index(cm, t)),
                                     name |-> g.target_graphs[t][1].name ] },
                               target_graphs |-> g.target_graphs ])

NoTargetGraphs == [ t \in TIdx |-> << >> ]

\* the loading loops of one run
load_targets(cm, rp, st, sn) ==
    LoadLoop(cm, rp, st, sn, TargetOrder,
             [ raised |-> "none", graph_nodes |-> AnchorNodes(cm),
               target_graphs |-> NoTargetGraphs ])

----------------------------------------------------------------------------
(* cmake_build_config_graph: the dependency-collection loop *)

\* the Dependence record of target t for its dependency dep_target
Dependence_in_source_project(cm, pp, t, dep_target) ==
    [ source |-> t,
      to |-> dep_target,
      graph |-> project_graph_name(cm, project_index(cm, t)),
      full_dep |-> (pp /\ full_dependence(cm, project_index(cm, dep_target), t)) ]

Dependence(cm, pp, t, dep_target) ==
    [ source |-> t,
      to |-> dep_target,
      graph |-> IF project_index(cm, t) = project_index(cm, dep_target)
                THEN project_graph_name(cm, project_index(cm, t))
                ELSE root_graph_name(cm),
      full_dep |-> (pp /\ full_dependence(cm, project_index(cm, dep_target), t)) ]

\* the inner loop over the dependency ids of target t; targets_dict[dep_id]
\* raises KeyError for an id that is no key
RECURSIVE CollectIds(_, _, _, _, _)
CollectIds(cm, pp, t, ids, acc) ==
    IF ids = << >> THEN [ raised |-> "none", dependencies |-> acc ]
    ELSE IF Head(ids) \notin DOMAIN targets_dict(cm)
    THEN [ raised |-> "KeyError", dependencies |-> acc ]
    ELSE CollectIds(cm, pp, t, Tail(ids),
                    Append(acc, Dependence(cm, pp, t, targets_dict(cm)[Head(ids)])))

\* the outer loop over targets_dict.values()
RECURSIVE CollectTargets(_, _, _, _)
CollectTargets(cm, pp, order, acc) ==
    IF order = << >> THEN [ raised |-> "none", dependencies |-> acc ]
    ELSE LET r == CollectIds(cm, pp, Head(order), dependency_ids(cm, Head(order)), acc)
         IN  IF r.raised # "none" THEN r
             ELSE CollectTargets(cm, pp, Tail(order), r.dependencies)

----------------------------------------------------------------------------
(* cmake_build_config_graph: frequent dependencies *)

\* deps.count(target)
usage_count(deps, t) == Cardinality({ k \in DOMAIN deps : deps[k].to = t })

\* is_frequent with >= in place of >
is_frequent_or_equal(count, threshold) == count >= threshold

\* usage_count > frequent_deps_threshold
is_frequent(count, threshold) == count > threshold

\* Target.set_marker(marker, usage_count)
set_marker(ts, t, marker, count) ==
    [ ts EXCEPT ![t]._marker = marker, ![t]._usage_count = count ]

\* Target.add_dep_marker(dep_mark)
add_dep_marker(ts, t, dep_mark) ==
    [ ts EXCEPT ![t]._dep_markers = Append(@, dep_mark) ]

\* the loop over targets_dict.values() that flags the frequent targets;
\* st holds frequent_dependencies, icon_generator and the targets' state
RECURSIVE FlagTargets(_, _, _, _)
FlagTargets(deps, threshold, order, st) ==
    IF order = << >> THEN st
    ELSE LET t == Head(order)
             count == usage_count(deps, t)
         IN  IF ~ is_frequent(count, threshold)
             THEN FlagTargets(deps, threshold, Tail(order), st)
             ELSE LET icon == next(st.icon_generator)
                  IN  IF icon.raised # "none"
                      THEN [ st EXCEPT !.raised = icon.raised,
                                       !.frequent_dependencies = @ \cup {t} ]
                      ELSE FlagTargets(deps, threshold, Tail(order),
                             [ raised |-> "none",
                               frequent_dependencies |-> st.frequent_dependencies \cup {t},
                               icon_generator |-> icon.self,
                               targets_state |->
                                 set_marker(st.targets_state, t, icon.letter, count) ])

----------------------------------------------------------------------------
(* cmake_build_config_graph: the edge pass *)

\* annotate_only without the test of the directories
annotate_only_any_directory(cm, frequent, dep) == dep.to \in frequent

\* the record is only annotated: its destination is frequent and lies in
\* another directory than its source
annotate_only(cm, frequent, dep) ==
    /\ dep.to \in frequent
    /\ directory_index(cm, dep.source) # directory_index(cm, dep.to)

\* the key remembered for a drawn full-project edge
full_dep_key(cm, dep) == << dep.source, project_index(cm, dep.to) >>

\* edge_style that remembers the project alone, for every source
edge_style_by_project(cm, fpd, dep) ==
    IF dep.full_dep /\ project_index(cm, dep.to) \in { key[2] : key \in fpd }
    THEN "invis" ELSE "dashed"

\* the style of the edge drawn for a record, given the pairs drawn so far
edge_style(cm, fpd, dep) ==
    IF dep.full_dep /\ full_dep_key(cm, dep) \in fpd THEN "invis" ELSE "dashed"

edge_tooltip(cm, dep) ==
    IF dep.full_dep
    THEN << "all targets from", project_name(cm, project_index(cm, dep.to)) >>
    ELSE << >>

\* the head of the edge drawn for a record: to.get_graph().get_name()
edge_head(cm, dep) == target_node_name(cm, dep.to)

\* pydot.Edge(...) for the record at position k of the dependencies list
dep_edge(cm, fpd, dep, k) ==
    [ tail |-> << target_name(cm, dep.source) >>,
      head |-> edge_head(cm, dep),
      style |-> edge_style(cm, fpd, dep),
      tooltip |-> edge_tooltip(cm, dep),
      graph |-> dep.graph,
      dep |-> k ]

\* the rest of an iteration that did not "continue": the pair of a full
\* dependence is remembered, the destination's node is asked for (and built if
\* the loading loop passed it over), and the edge is added to the record's graph
draw_edge(cm, rp, st, dep, k) ==
    LET fpd == IF dep.full_dep
               THEN st.full_project_dependencies \cup { full_dep_key(cm, dep) }
               ELSE st.full_project_dependencies
        g == get_graph(cm, rp, st.target_graphs, dep.to)
    IN  IF g.raised # "none"
        THEN [ st EXCEPT !.raised = g.raised, !.full_project_dependencies = fpd ]
        ELSE [ st EXCEPT !.full_project_dependencies = fpd,
                         !.target_graphs = g.target_graphs,
                         !.edges = Append(@, dep_edge(cm, st.full_project_dependencies, dep, k)) ]

\* an iteration that annotates and then goes on to draw the edge as well
edge_pass_step_without_continue(cm, rp, frequent, st, dep, k) ==
    IF annotate_only(cm, frequent, dep)
    THEN draw_edge(cm, rp,
                   [ st EXCEPT !.targets_state =
                       add_dep_marker(@, dep.source, st.targets_state[dep.to]._marker[1]) ],
                   dep, k)
    ELSE draw_edge(cm, rp, st, dep, k)

\* one iteration of the edge pass, for the record at position k: the record is
\* either annotated onto its source or drawn as an edge
edge_pass_step(cm, rp, frequent, st, dep, k) ==
    IF annotate_only(cm, frequent, dep)
    THEN [ st EXCEPT !.targets_state =
             add_dep_marker(@, dep.source, st.targets_state[dep.to]._marker[1]) ]
    ELSE draw_edge(cm, rp, st, dep, k)

----------------------------------------------------------------------------
(* One run of cmake_build_config_graph *)

\* Target.__init__: no marker, usage count 0, no dependency markers
NewTargets ==
    [ t \in TIdx |-> [ _marker |-> << >>, _usage_count |-> 0, _dep_markers |-> << >> ] ]

NoGenerators == [ g \in 1 .. NumGenerators |-> GenerateLetters ]

\* every detail document with one defining command
WellFormedReply == Reply([ t \in TIdx |-> OneDefinition ])

Init ==
    /\ \E dirs \in DirectoryPlacements, deps \in DepAssignments :
          codemodel = Snapshot(dirs, deps)
    /\ reply = WellFormedReply
    /\ skip_types = NoPattern
    /\ skip_names = NoPattern
    /\ target_graphs = NoTargetGraphs
    /\ codemodel_dependencies = << >>
    /\ perproject \in BOOLEAN
    /\ frequent_deps_threshold \in 0 .. MaxThreshold
    /\ pc = "start"
    /\ raised = "none"
    /\ graph_nodes = {}
    /\ dependencies = << >>
    /\ frequent_dependencies = {}
    /\ icon_generator = GenerateLetters
    /\ targets_state = NewTargets
    /\ dep_pos = 0
    /\ full_project_dependencies = {}
    /\ edges = << >>
    /\ generators = NoGenerators

\* the Project, Directory and Target loops: every cluster is created and
\* the node of every target that is not skipped is built and put into the
\* cluster of its directory; an exception ends the run
LoadTargets ==
    /\ pc = "start"
    /\ LET r == load_targets(codemodel, reply, skip_types, skip_names)
       IN  /\ graph_nodes' = r.graph_nodes
           /\ target_graphs' = r.target_graphs
           /\ raised' = r.raised
           /\ pc' = IF r.raised = "none" THEN "loaded" ELSE "aborted"
    /\ UNCHANGED << reply, skip_types, skip_names, codemodel_dependencies,
                    codemodel, perproject, frequent_deps_threshold,
                    dependencies, frequent_dependencies, icon_generator,
                    targets_state, dep_pos, full_project_dependencies, edges,
                    generators >>

\* the dependency-collection loop; an exception ends the run
CollectDependencies ==
    /\ pc = "loaded"
    /\ LET r == CollectTargets(codemodel, perproject,
                               targets_dict_values(codemodel), << >>)
       IN  IF r.raised = "none"
           THEN /\ dependencies' = r.dependencies
                /\ pc' = "collected"
                /\ raised' = raised
           ELSE /\ dependencies' = r.dependencies
                /\ pc' = "aborted"
                /\ raised' = r.raised
    /\ UNCHANGED << reply, skip_types, skip_names, codemodel_dependencies,
                    target_graphs,
                    codemodel, perproject, frequent_deps_threshold, graph_nodes,
                    frequent_dependencies, icon_generator, targets_state,
                    dep_pos, full_project_dependencies, edges, generators >>

\* the loop that flags frequent targets and hands out their markers
FlagFrequent ==
    /\ pc = "collected"
    /\ LET st == FlagTargets(dependencies, frequent_deps_threshold,
                             targets_dict_values(codemodel),
                             [ raised |-> "none",
                               frequent_dependencies |-> {},
                               icon_generator |-> GenerateLetters,
                               targets_state |-> targets_state ])
       IN  /\ frequent_dependencies' = st.frequent_dependencies
           /\ icon_generator' = st.icon_generator
           /\ targets_state' = st.targets_state
           /\ raised' = st.raised
           /\ pc' = IF st.raised = "none" THEN "flagged" ELSE "aborted"
    /\ UNCHANGED << reply, skip_types, skip_names, codemodel_dependencies,
                    target_graphs,
                    codemodel, perproject, frequent_deps_threshold, graph_nodes,
                    dependencies, dep_pos, full_project_dependencies, edges,
                    generators >>

\* one iteration of the edge pass, on the next Dependence record; an
\* exception ends the run
EdgeStep ==
    /\ pc = "flagged"
    /\ dep_pos < Len(dependencies)
    /\ LET k == dep_pos + 1
           st == edge_pass_step(codemodel, reply, frequent_dependencies,
                                [ raised |-> "none",
                                  targets_state |-> targets_state,
                                  full_project_dependencies |-> full_project_dependencies,
                                  edges |-> edges,
                                  target_graphs |-> target_graphs ],
                                dependencies[k], k)
       IN  /\ targets_state' = st.targets_state
           /\ full_project_dependencies' = st.full_project_dependencies
           /\ edges' = st.edges
           /\ target_graphs' = st.target_graphs
           /\ raised' = st.raised
           /\ pc' = IF st.raised = "none" THEN pc ELSE "aborted"
           /\ dep_pos' = IF st.raised = "none" THEN dep_pos + 1 ELSE dep_pos
    /\ UNCHANGED << reply, skip_types, skip_names, codemodel_dependencies,
                    codemodel, perproject, frequent_deps_threshold,
                    graph_nodes, dependencies, frequent_dependencies,
                    icon_generator, generators >>

\* return graph
Return ==
    /\ pc = "flagged"
    /\ dep_pos = Len(dependencies)
    /\ pc' = "done"
    /\ UNCHANGED << reply, skip_types, skip_names, codemodel_dependencies,
                    target_graphs,
                    codemodel, perproject, frequent_deps_threshold, raised,
                    graph_nodes, dependencies, frequent_dependencies,
                    icon_generator, targets_state, dep_pos,
                    full_project_dependencies, edges, generators >>

Next ==
    \/ LoadTargets
    \/ CollectDependencies
    \/ FlagFrequent
    \/ EdgeStep
    \/ Return

Spec == Init /\ [][Next]_vars

----------------------------------------------------------------------------
(* GenerateLetters objects on their own: each run of                       *)
(* cmake_build_config_graph creates one; here every object is asked for    *)
(* letters until it raises.                                                *)

LettersInit ==
    /\ codemodel = Snapshot([ t \in TIdx |-> 0 ], [ t \in TIdx |-> << >> ])
    /\ reply = WellFormedReply
    /\ skip_types = NoPattern
    /\ skip_names = NoPattern
    /\ target_graphs = NoTargetGraphs
    /\ codemodel_dependencies = << >>
    /\ perproject = TRUE
    /\ frequent_deps_threshold = 0
    /\ pc = "letters"
    /\ raised = "none"
    /\ graph_nodes = {}
    /\ dependencies = << >>
    /\ frequent_dependencies = {}
    /\ icon_generator = GenerateLetters
    /\ targets_state = NewTargets
    /\ dep_pos = 0
    /\ full_project_dependencies = {}
    /\ edges = << >>
    /\ generators =
         [ g \in 1 .. NumGenerators |->
             [ self |-> GenerateLetters, letter |-> << >>, raised |-> "none",
               returned |-> 0 ] ]

\* icon = generators[g].next(); an object that raised is not used again
NextLetter(g) ==
    /\ pc = "letters"
    /\ generators[g].raised = "none"
    /\ LET r == next(generators[g].self)
       IN  generators' =
             [ generators EXCEPT ![g] =
                 [ self |-> r.self, letter |-> r.letter, raised |-> r.raised,
                   returned |-> IF r.raised = "none" THEN @.returned + 1
                                ELSE @.returned ] ]
    /\ UNCHANGED << reply, skip_types, skip_names, codemodel_dependencies,
                    target_graphs,
                    codemodel, perproject, frequent_deps_threshold, pc, raised,
                    graph_nodes, dependencies, frequent_dependencies,
                    icon_generator, targets_state, dep_pos,
                    full_project_dependencies, edges >>

LettersNext == \E g \in 1 .. NumGenerators : NextLetter(g)

LettersSpec == LettersInit /\ [][LettersNext]_vars

----------------------------------------------------------------------------
(* Runs with skip patterns and with arbitrary backtrace tables *)

\* most dependency ids of a snapshot in these runs
MaxLoadDeps == 2

\* dependency-id lists of ids of other targets only
LoadDepAssignments ==
    { d \in DepAssignments :
        /\ SumLen(d, TIdx) <= MaxLoadDeps
        /\ \A t \in TIdx : UnknownId \notin Range(d[t]) }

\* all targets in the top directory, or one target per directory
LoadDirectories == { [ t \in TIdx |-> 0 ], [ t \in TIdx |-> t ] }

LoadInit ==
    /\ \E dirs \in LoadDirectories, deps \in LoadDepAssignments :
          codemodel = Snapshot(dirs, deps)
    /\ \E bgs \in [TIdx -> BacktraceGraphs] : reply = Reply(bgs)
    /\ skip_types \in SkipTypesPatterns
    /\ skip_names \in SkipNamesPatterns
    /\ perproject = TRUE
    /\ frequent_deps_threshold \in 0 .. 1
    /\ pc = "start"
    /\ raised = "none"
    /\ graph_nodes = {}
    /\ dependencies = << >>
    /\ frequent_dependencies = {}
    /\ icon_generator = GenerateLetters
    /\ targets_state = NewTargets
    /\ dep_pos = 0
    /\ full_project_dependencies = {}
    /\ edges = << >>
    /\ generators = NoGenerators
    /\ target_graphs = NoTargetGraphs
    /\ codemodel_dependencies = << >>

LoadSpec == LoadInit /\ [][Next]_vars

\* the edge pass from the record at position k on, as a whole
RECURSIVE EdgePass(_, _, _, _, _, _)
EdgePass(cm, rp, frequent, deps, k, st) ==
    IF k > Len(deps) \/ st.raised # "none" THEN st
    ELSE EdgePass(cm, rp, frequent, deps, k + 1,
                  edge_pass_step(cm, rp, frequent, st, deps[k], k))

\* cmake_build_config_graph as a whole: what a run on these inputs ends with
cmake_build_config_graph(cm, rp, st, sn, pp, threshold) ==
    LET none == [ raised |-> "none", graph_nodes |-> {}, dependencies |-> << >>,
                  targets_state |-> NewTargets, edges |-> << >> ]
        loaded == load_targets(cm, rp, st, sn)
        collected == CollectTargets(cm, pp, targets_dict_values(cm), << >>)
        flagged == FlagTargets(collected.dependencies, threshold,
                               targets_dict_values(cm),
                               [ raised |-> "none",
                                 frequent_dependencies |-> {},
                                 icon_generator |-> GenerateLetters,
                                 targets_state |-> NewTargets ])
        passed == EdgePass(cm, rp, flagged.frequent_dependencies,
                           collected.dependencies, 1,
                           [ raised |-> "none",
                             targets_state |-> flagged.targets_state,
                             full_project_dependencies |-> {},
                             edges |-> << >>,
                             target_graphs |-> loaded.target_graphs ])
    IN  IF loaded.raised # "none"
        THEN [ none EXCEPT !.raised = loaded.raised, !.graph_nodes = loaded.graph_nodes ]
        ELSE IF collected.raised # "none"
        THEN [ none EXCEPT !.raised = collected.raised, !.graph_nodes = loaded.graph_nodes,
                           !.dependencies = collected.dependencies ]
        ELSE IF flagged.raised # "none"
        THEN [ none EXCEPT !.raised = flagged.raised, !.graph_nodes = loaded.graph_nodes,
                           !.dependencies = collected.dependencies,
                           !.targets_state = flagged.targets_state ]
        ELSE [ raised |-> passed.raised,
               graph_nodes |-> loaded.graph_nodes,
               dependencies |-> collected.dependencies,
               targets_state |-> passed.targets_state,
               edges |-> passed.edges ]

----------------------------------------------------------------------------
(* Codemodel (codemodel.py): the constructor collects the dependencies *)

\* the Dependence record Codemodel.__init__ builds for target t and the target
\* at index dep_ind of self.targets
CodemodelDependence(cm, pp, t, dep_ind) ==
    [ source |-> t,
      to |-> dep_ind,
      graph |-> IF project_index(cm, t) = project_index(cm, dep_ind)
                THEN project_graph_name(cm, project_index(cm, t))
                ELSE root_graph_name(cm),
      full_dep |-> (pp /\ full_dependence(cm, project_index(cm, dep_ind), t)) ]

\* the loop over self.targets and, per target, over dependency_indexes()
RECURSIVE CodemodelCollect(_, _, _, _)
CodemodelCollect(cm, pp, order, acc) ==
    IF order = << >> THEN acc
    ELSE LET t == Head(order)
             inds == dependency_indexes(cm, t)
         IN  CodemodelCollect(cm, pp, Tail(order),
                 acc \o [ i \in DOMAIN inds |-> CodemodelDependence(cm, pp, t, inds[i]) ])

\* the snapshot and the option alone vary; the run's filters and documents are
\* the plain ones
CodemodelInit ==
    /\ Init
    /\ frequent_deps_threshold = MaxThreshold

\* Codemodel(codemodel_dir, cfg, perproject): self.dependencies
ConstructCodemodel ==
    /\ codemodel_dependencies = << >>
    /\ pc \in { "start", "loaded", "collected", "aborted" }
    /\ codemodel_dependencies' =
          << CodemodelCollect(codemodel, perproject, TargetOrder, << >>) >>
    /\ UNCHANGED << reply, skip_types, skip_names, target_graphs,
                    codemodel, perproject, frequent_deps_threshold, pc, raised,
                    graph_nodes, dependencies, frequent_dependencies,
                    icon_generator, targets_state, dep_pos,
                    full_project_dependencies, edges, generators >>

CodemodelNext == LoadTargets \/ CollectDependencies \/ ConstructCodemodel

\* the constructor next to the loading and collection loops of the script
CodemodelSpec == CodemodelInit /\ [][CodemodelNext]_vars

----------------------------------------------------------------------------
(* Notions the properties are stated in, read off the snapshot itself *)

\* the raw dependencyIds of a target
RawIds(t) == codemodel.targets[t].dependencies

\* the targets of the snapshot that have the id
TargetsWithId(id) == { u \in TIdx : codemodel.targets[u].id = id }

\* every dependency id of t is the id of a target
AllIdsResolve(t) == \A k \in DOMAIN RawIds(t) : TargetsWithId(RawIds(t)[k]) # {}

\* the position in the target list of the k-th dependency id of t
PositionOfId(t, k) == CHOOSE u \in TargetsWithId(RawIds(t)[k]) : TRUE

\* the dependency ids of t resolved one by one, in the order of the ids
IndexesInIdOrder(t) == [ k \in DOMAIN RawIds(t) |-> PositionOfId(t, k) ]

\* the set of targets that t lists as dependencies
ResolvedIndexSet(t) ==
    { u \in TIdx : \E k \in DOMAIN RawIds(t) : RawIds(t)[k] = codemodel.targets[u].id }

\* occurrences of the id of u in the dependencyIds of all targets
Occurrences(u) ==
    Cardinality({ sk \in TIdx \X (1 .. MaxDeps) :
                    /\ sk[2] \in DOMAIN RawIds(sk[1])
                    /\ RawIds(sk[1])[sk[2]] = codemodel.targets[u].id })

\* the run got past the dependency-collection loop
Collected == pc \in { "collected", "flagged", "done" }

\* the run got past the loop that flags frequent targets
Flagged == pc \in { "flagged", "done" }

----------------------------------------------------------------------------
(* Properties *)

\* C1: for every target whose dependency ids all resolve, dependency_indexes()
\* is the list of the positions of its dependency ids, one per id, in the
\* order of the ids and with duplicates kept (looked at once the loading
\* loop has built the targets' nodes, which calls dependency_indexes()).
C1_IndexesFollowIdOrder ==
    pc # "start" =>
        \A t \in TIdx :
            AllIdsResolve(t) =>
                /\ dependency_indexes(codemodel, t) = IndexesInIdOrder(t)
                /\ Len(dependency_indexes(codemodel, t)) = Len(RawIds(t))

\* the occurrences of dependency ids of targets 0 .. t, as (target, position)
\* pairs: target by target, and within a target in the order of its ids
RECURSIVE OccurrencesUpTo(_)
OccurrencesUpTo(t) ==
    IF t < 0 THEN << >>
    ELSE OccurrencesUpTo(t - 1) \o [ k \in DOMAIN RawIds(t) |-> << t, k >> ]

\* the id at the i-th occurrence
OccurringId(i) ==
    LET occ == OccurrencesUpTo(Len(TargetNames) - 1)
    IN  RawIds(occ[i][1])[occ[i][2]]

\* C2: a snapshot in which some dependency id matches no target never gets
\* past the dependency-collection loop: the run ends with an exception at the
\* first such id, which is not dropped: the records built until then are
\* those of the ids before it, nothing is flagged or drawn, and no graph is
\* returned.
C2_UnresolvedIdAborts ==
    (\E t \in TIdx : ~ AllIdsResolve(t)) =>
        /\ pc \in { "start", "loaded", "aborted" }
        /\ pc # "aborted" => dependencies = << >>
        /\ edges = << >> /\ dep_pos = 0 /\ frequent_dependencies = {}
        /\ pc = "aborted" =>
              /\ raised = "KeyError"
              /\ Len(dependencies) < Len(OccurrencesUpTo(Len(TargetNames) - 1))
              /\ TargetsWithId(OccurringId(Len(dependencies) + 1)) = {}
              /\ \A i \in DOMAIN dependencies :
                    /\ dependencies[i].source = OccurrencesUpTo(Len(TargetNames) - 1)[i][1]
                    /\ codemodel.targets[dependencies[i].to].id = OccurringId(i)

C2_Witness ==
    /\ pc = "aborted"
    /\ raised = "KeyError"
    /\ dependencies # << >>
    /\ \E t \in TIdx : ~ AllIdsResolve(t)
    /\ \E t \in TIdx : AllIdsResolve(t) /\ RawIds(t) # << >>

\* C3: with perproject, a Dependence record is a full dependence exactly when
\* every target index of the destination's project is among the targets the
\* source lists; without perproject no record is; and full_dependence holds
\* of every target for a project without targets.
C3_FullDepIffProjectCovered ==
    /\ Collected =>
         \A k \in DOMAIN dependencies :
            dependencies[k].full_dep =
               ( /\ perproject
                 /\ codemodel.projects[
                        codemodel.targets[dependencies[k].to].projectIndex
                      ].targetIndexes \subseteq ResolvedIndexSet(dependencies[k].source) )
    /\ \A p \in PIdx, t \in TIdx :
         codemodel.projects[p].targetIndexes = {} => full_dependence(codemodel, p, t)

C3_Witness ==
    /\ pc = "collected"
    /\ perproject
    /\ \E k \in DOMAIN dependencies : dependencies[k].full_dep
    /\ \E k \in DOMAIN dependencies : ~ dependencies[k].full_dep

\* C4: after the flagging loop a target is in frequent_dependencies, and has
\* a marker, exactly when the number of Dependence records that point to it
\* (one per occurrence of its id, same-directory sources included) is
\* strictly greater than the threshold.
C4_FrequentIffAboveThreshold ==
    Flagged =>
        \A u \in TIdx :
            /\ u \in frequent_dependencies <=> Occurrences(u) > frequent_deps_threshold
            /\ targets_state[u]._marker # << >> <=> Occurrences(u) > frequent_deps_threshold
            /\ usage_count(dependencies, u) = Occurrences(u)

C4_Witness ==
    /\ pc = "flagged"
    /\ frequent_deps_threshold >= 1
    /\ \E u \in TIdx : Occurrences(u) = frequent_deps_threshold + 1
                       /\ u \in frequent_dependencies
    /\ \E u \in TIdx : Occurrences(u) = frequent_deps_threshold
                       /\ u \notin frequent_dependencies

\* the number of frequent targets up to and including u, in target order
FrequentRank(u) == Cardinality({ v \in frequent_dependencies : v <= u })

\* C5: the k-th frequent target in target order holds the k-th letter of the
\* alphabet, and no two targets hold the same marker.
C5_MarkersInOrderAndDistinct ==
    Flagged =>
        /\ \A u \in frequent_dependencies :
              targets_state[u]._marker = << greek_letters[FrequentRank(u)] >>
        /\ \A u \in TIdx \ frequent_dependencies : targets_state[u]._marker = << >>
        /\ \A u, v \in frequent_dependencies :
              u # v => targets_state[u]._marker # targets_state[v]._marker

C5_Witness ==
    /\ pc = "done"
    /\ Cardinality(frequent_dependencies) = Len(TargetNames)

\* C6: a GenerateLetters object that has handed out every letter of the
\* alphabet answers the next request with the 'ran out of letters!'
\* RuntimeError, and never with a letter: whenever next() raises, it raises
\* RuntimeError, and it raises once all letters are out.
C6_ExhaustedRaisesRuntimeError ==
    \A g \in DOMAIN generators :
        /\ generators[g].raised # "none" =>
              /\ generators[g].raised = "RuntimeError"
              /\ generators[g].returned = Len(greek_letters)
        /\ generators[g].returned <= Len(greek_letters)

\* the frequent dependencies of target t
FreqSubset(t) == ResolvedIndexSet(t) \cap frequent_dependencies

\* the targets whose frequent dependencies are exactly S
Recurrence(S) == Cardinality({ t \in TIdx : FreqSubset(t) = S })

\* some set of frequent dependencies has a size and a recurrence count both
\* above the threshold
HubExpected ==
    \E S \in (SUBSET frequent_dependencies) \ { {} } :
        /\ Cardinality(S) > frequent_deps_threshold
        /\ Recurrence(S) > frequent_deps_threshold

\* the nodes of the graph that are neither a target's node nor a project's
\* anchor node
HubNodes ==
    { n \in graph_nodes :
        /\ \A t \in TIdx : n.name # target_node_name(codemodel, t)
        /\ \A p \in PIdx : n.name # project_node_name(codemodel, p) }

\* the dotted edges (from or to a hub)
HubEdges == { e \in DOMAIN edges : edges[e].style = "dotted" }

\* C7: the finished graph has a hub node exactly when some set of frequent
\* dependencies has a recurrence count and a size both strictly greater than
\* the threshold.
C7_HubIffRecurringSubset ==
    pc = "done" => (HubNodes # {} <=> HubExpected)

\* the record at position k of the dependencies list was drawn as an edge
Drawn(k) == \E e \in DOMAIN edges : edges[e].dep = k

\* the record at position k was handled by the edge pass without an edge
AnnotatedOnly(k) == k <= dep_pos /\ ~ Drawn(k)

\* C8: the edge pass never only annotates a full-dependence record: every
\* such record it has handled was drawn as an edge, and a record is only
\* annotated when its destination is frequent, lies in another directory
\* than the source, and the record is no full dependence.
C8_FullDepNeverAnnotated ==
    \A k \in DOMAIN dependencies :
        AnnotatedOnly(k) =>
            /\ ~ dependencies[k].full_dep
            /\ dependencies[k].to \in frequent_dependencies
            /\ codemodel.targets[dependencies[k].source].directoryIndex
                 # codemodel.targets[dependencies[k].to].directoryIndex

\* C9: the edge drawn for a full-dependence record points to the anchor node
\* of the destination's project, not to the destination target's node.
C9_FullDepEdgeHeadIsAnchor ==
    \A e \in DOMAIN edges :
        dependencies[edges[e].dep].full_dep =>
            edges[e].head =
              << "PROJNODE", "cluster",
                 codemodel.projects[
                     codemodel.targets[dependencies[edges[e].dep].to].projectIndex
                   ].name >>

\* the (source target, destination project) pair of the edge at position e
EdgePair(e) ==
    << dependencies[edges[e].dep].source,
       codemodel.targets[dependencies[edges[e].dep].to].projectIndex >>

\* an edge of the same pair was drawn before the edge at position e
EarlierEdgeOfPair(e) == \E f \in 1 .. (e - 1) : EdgePair(f) = EdgePair(e)

\* C10: an edge is invis only if it is a full-dependence edge and an edge of
\* the same (source target, destination project) pair was drawn before it;
\* the first full-dependence edge of a pair is dashed, and so is every edge
\* that is no full dependence.
C10_InvisOnlyAfterFirstOfPair ==
    \A e \in DOMAIN edges :
        /\ edges[e].style \in { "dashed", "invis" }
        /\ edges[e].style = "invis" =>
              dependencies[edges[e].dep].full_dep /\ EarlierEdgeOfPair(e)
        /\ (dependencies[edges[e].dep].full_dep /\ ~ EarlierEdgeOfPair(e)) =>
              edges[e].style = "dashed"
        /\ ~ dependencies[edges[e].dep].full_dep => edges[e].style = "dashed"

C10_Witness ==
    /\ pc = "done"
    /\ \E e, f \in DOMAIN edges :
          /\ f < e
          /\ edges[f].style = "dashed"
          /\ edges[e].style = "invis"
          /\ EdgePair(f) = EdgePair(e)
          /\ dependencies[edges[f].dep].to # dependencies[edges[e].dep].to

\* the positions of the records the edge pass has handled, in order
HandledPositions == [ k \in 1 .. dep_pos |-> k ]

\* the markers the handled records of source s that drew no edge stand for:
\* the marker of each one's destination, in the order of the records
MarkersOwed(s) ==
    LET ks == SelectSeq(HandledPositions,
                        LAMBDA k : dependencies[k].source = s /\ ~ Drawn(k))
    IN  [ i \in DOMAIN ks |-> targets_state[dependencies[ks[i]].to]._marker[1] ]

\* the edges drawn for the record at position k
EdgesOf(k) == { e \in DOMAIN edges : edges[e].dep = k }

\* the record at position k is no full dependence and points to a frequent target
PlainToFrequent(k) ==
    /\ ~ dependencies[k].full_dep
    /\ Occurrences(dependencies[k].to) > frequent_deps_threshold

SameDirectory(k) ==
    codemodel.targets[dependencies[k].source].directoryIndex
      = codemodel.targets[dependencies[k].to].directoryIndex

\* C11: a handled record that is no full dependence and whose destination is
\* frequent is handled by directory: across directories the source gets the
\* destination's marker once and no edge is drawn; within one directory one
\* plain dashed edge from the source to the destination is drawn and no
\* marker is added.
C11_FrequentHandledByDirectory ==
    /\ \A k \in 1 .. dep_pos :
          PlainToFrequent(k) =>
             IF SameDirectory(k)
             THEN /\ Cardinality(EdgesOf(k)) = 1
                  /\ \A e \in EdgesOf(k) :
                        /\ edges[e].style = "dashed"
                        /\ edges[e].tooltip = << >>
                        /\ edges[e].tail = << codemodel.targets[dependencies[k].source].name >>
                        /\ edges[e].head = << codemodel.targets[dependencies[k].to].name >>
             ELSE EdgesOf(k) = {}
    /\ \A s \in TIdx : targets_state[s]._dep_markers = MarkersOwed(s)

C11_Witness ==
    /\ pc = "done"
    /\ \E k \in 1 .. dep_pos :
          /\ PlainToFrequent(k) /\ ~ SameDirectory(k)
          /\ targets_state[dependencies[k].source]._dep_markers
               = << targets_state[dependencies[k].to]._marker[1] >>
    /\ \E k \in 1 .. dep_pos : PlainToFrequent(k) /\ SameDirectory(k) /\ Drawn(k)

\* the (source, destination) pairs the dependency ids of targets 0 .. t stand
\* for: target by target, and within a target id by id
RECURSIVE PairsUpTo(_)
PairsUpTo(t) ==
    IF t < 0 THEN << >>
    ELSE PairsUpTo(t - 1) \o [ k \in DOMAIN RawIds(t) |-> << t, PositionOfId(t, k) >> ]

\* C14: once the collection loop is through, the dependency list holds one
\* record per occurrence of a dependency id, in target order and within a
\* target in the order of its ids; an id listed twice gives two records, and
\* the number of records is the sum of the lengths of the id lists.
C14_OneRecordPerIdOccurrence ==
    Collected =>
       /\ Len(dependencies) = SumLen([ t \in TIdx |-> RawIds(t) ], TIdx)
       /\ [ k \in DOMAIN dependencies |-> << dependencies[k].source, dependencies[k].to >> ]
            = PairsUpTo(Len(TargetNames) - 1)

C14_Witness ==
    /\ Collected
    /\ Len(dependencies) = MaxTotalDeps
    /\ \E k \in 1 .. Len(dependencies) - 1 :
          /\ dependencies[k].source = dependencies[k + 1].source
          /\ dependencies[k].to = dependencies[k + 1].to
    /\ \E k \in 1 .. Len(dependencies) - 1 :
          dependencies[k].source # dependencies[k + 1].source

\* C16: every drawn edge lies in the project scope of its source when source
\* and destination belong to the same project, and in the top-level graph
\* otherwise.
C16_EdgeScopeByProject ==
    \A e \in DOMAIN edges :
       LET s == dependencies[edges[e].dep].source
           d == dependencies[edges[e].dep].to
       IN  edges[e].graph =
              IF codemodel.targets[s].projectIndex = codemodel.targets[d].projectIndex
              THEN << "cluster", codemodel.projects[codemodel.targets[s].projectIndex].name >>
              ELSE << "targetgraph", codemodel.name >>

C16_Witness ==
    /\ pc = "done"
    /\ \E e \in DOMAIN edges : edges[e].graph[1] = "cluster"
    /\ \E e \in DOMAIN edges :
          /\ edges[e].graph = << "targetgraph", codemodel.name >>
          /\ codemodel.targets[dependencies[edges[e].dep].source].projectIndex
               # codemodel.targets[dependencies[edges[e].dep].to].projectIndex

\* the number of dependency markers annotated onto the targets of S
RECURSIVE MarkersAnnotated(_)
MarkersAnnotated(S) ==
    IF S = {} THEN 0
    ELSE LET t == CHOOSE u \in S : TRUE
         IN  Len(targets_state[t]._dep_markers) + MarkersAnnotated(S \ { t })

\* C15: the edge pass handles the records one by one in the order of their
\* creation and gives each exactly one disposition: one edge or one marker on
\* its source, never both and never neither; the edges lie in the order of
\* their records, and when the pass is through the edges drawn and the
\* markers annotated add up to the number of records.
C15_OneDispositionPerRecord ==
    /\ dep_pos <= Len(dependencies)
    /\ \A e \in DOMAIN edges : edges[e].dep \in 1 .. dep_pos
    /\ \A e, f \in DOMAIN edges : e < f => edges[e].dep < edges[f].dep
    /\ \A s \in TIdx : Len(targets_state[s]._dep_markers) = Len(MarkersOwed(s))
    /\ Len(edges) + MarkersAnnotated(TIdx) = dep_pos
    /\ pc = "done" => dep_pos = Len(dependencies)

C15_Witness ==
    /\ pc = "done"
    /\ Len(dependencies) = MaxTotalDeps
    /\ edges # << >>
    /\ MarkersAnnotated(TIdx) > 0

\* C17: once the Codemodel constructor and the collection loop of the script
\* have both run on a snapshot, the script has raised nothing and the two
\* lists of Dependence records are the same, record by record.
C17_CodemodelCollectsLikeScript ==
    (codemodel_dependencies # << >> /\ pc \in { "collected", "aborted" }) =>
        /\ raised = "none"
        /\ dependencies = codemodel_dependencies[1]

\* the number of defining commands in the backtrace table of target t
DefiningCommands(t) ==
    Cardinality({ i \in DOMAIN reply[t].backtraceGraph.commands :
                    reply[t].backtraceGraph.commands[i] \in { "add_executable", "add_library" } })

\* C13: a run completes only when every target has exactly one defining
\* command in its backtrace table; a target with none, or with more than one,
\* makes the run abort.
C13_CompletesOnlyWithOneDefinitionEach ==
    pc = "done" => \A t \in TIdx : DefiningCommands(t) = 1

\* the node of target t in the scope of its directory
PlacedNode(t) ==
    [ graph |-> << "cluster", codemodel.directories[codemodel.targets[t].directoryIndex].source >>,
      name |-> << codemodel.targets[t].name >> ]

\* what the run on the same snapshot, documents and options ends with when no
\* skip pattern is given
Unfiltered ==
    cmake_build_config_graph(codemodel, reply, NoPattern, NoPattern,
                             perproject, frequent_deps_threshold)

\* C18: the skip patterns change the placement of nodes alone: a run with
\* them ends as the run without them does, and when it completes, a skipped
\* target is in no directory scope, every other target is in the scope of its
\* directory and in no other, and the dependency list, the usage counts and
\* markers, the annotations and the edges are those of the run without filter.
C18_SkipChangesPlacementOnly ==
    pc \in { "done", "aborted" } =>
       /\ (raised = "none") <=> (Unfiltered.raised = "none")
       /\ pc = "done" =>
             /\ \A t \in TIdx :
                   PlacedNode(t) \in graph_nodes
                     <=> ~ skipped(codemodel, reply, skip_types, skip_names, t)
             /\ graph_nodes \subseteq AnchorNodes(codemodel) \cup { PlacedNode(t) : t \in TIdx }
             /\ dependencies = Unfiltered.dependencies
             /\ targets_state = Unfiltered.targets_state
             /\ edges = Unfiltered.edges

====
